---- MODULE Spec2Model ----
(***************************************************************************)
(* State-machine model of the WebRTC leak test (script.js): the candidate  *)
(* handler, the negotiation, the collection-window timer, the primary and  *)
(* per-address geo lookups, the report assembly and the sink delivery; and *)
(* isPrivateIP called on its own, on arguments drawn from bounded sets.    *)
(*                                                                         *)
(* JavaScript strings are sequences of one-character strings, so that the  *)
(* regular expressions of the source can be run on them.                   *)
(***************************************************************************)
EXTENDS Integers, Sequences, FiniteSets, TLC

\* ------------------------------------------------------------------------
\* Characters and character classes
\* ------------------------------------------------------------------------
Digit == {"0","1","2","3","4","5","6","7","8","9"}
LowerHex == {"a","b","c","d","e","f"}
UpperHex == {"A","B","C","D","E","F"}
Hex == Digit \cup LowerHex \cup UpperHex
Lower == {"a","b","c","d","e","f","g","h","i","j","k","l","m",
          "n","o","p","q","r","s","t","u","v","w","x","y","z"}
Upper == {"A","B","C","D","E","F","G","H","I","J","K","L","M",
          "N","O","P","Q","R","S","T","U","V","W","X","Y","Z"}
AlNum == Digit \cup Lower \cup Upper
\* \w of a JavaScript regular expression
WordChar == AlNum \cup {"_"}
\* \s of a JavaScript regular expression, which is also the white space that
\* parseInt skips: U+0009 to U+000D, U+0020, U+00A0, U+1680, U+2000 to U+200A,
\* U+2028, U+2029, U+202F, U+205F, U+3000 and U+FEFF. A code unit that a
\* string of TLA+ cannot hold is written as its JavaScript escape.
SpaceChar == {"\t", "\n", "\\v", "\f", "\r", " ", "\\u00A0", "\\u1680",
              "\\u2000", "\\u2001", "\\u2002", "\\u2003", "\\u2004", "\\u2005",
              "\\u2006", "\\u2007", "\\u2008", "\\u2009", "\\u200A", "\\u2028",
              "\\u2029", "\\u202F", "\\u205F", "\\u3000", "\\uFEFF"}

\* the other case of an ASCII letter; any other character is itself
OtherCase(c) ==
  CASE c = "a" -> "A" [] c = "b" -> "B" [] c = "c" -> "C" [] c = "d" -> "D"
    [] c = "e" -> "E" [] c = "f" -> "F" [] c = "g" -> "G" [] c = "h" -> "H"
    [] c = "i" -> "I" [] c = "j" -> "J" [] c = "k" -> "K" [] c = "l" -> "L"
    [] c = "m" -> "M" [] c = "n" -> "N" [] c = "o" -> "O" [] c = "p" -> "P"
    [] c = "q" -> "Q" [] c = "r" -> "R" [] c = "s" -> "S" [] c = "t" -> "T"
    [] c = "u" -> "U" [] c = "v" -> "V" [] c = "w" -> "W" [] c = "x" -> "X"
    [] c = "y" -> "Y" [] c = "z" -> "Z" [] c = "A" -> "a" [] c = "B" -> "b"
    [] c = "C" -> "c" [] c = "D" -> "d" [] c = "E" -> "e" [] c = "F" -> "f"
    [] c = "G" -> "g" [] c = "H" -> "h" [] c = "I" -> "i" [] c = "J" -> "j"
    [] c = "K" -> "k" [] c = "L" -> "l" [] c = "M" -> "m" [] c = "N" -> "n"
    [] c = "O" -> "o" [] c = "P" -> "p" [] c = "Q" -> "q" [] c = "R" -> "r"
    [] c = "S" -> "s" [] c = "T" -> "t" [] c = "U" -> "u" [] c = "V" -> "v"
    [] c = "W" -> "w" [] c = "X" -> "x" [] c = "Y" -> "y" [] c = "Z" -> "z"
    [] OTHER -> c

\* the code units that toLowerCase turns into the one ASCII character c: c
\* itself unless it is an upper-case letter, the upper case of a letter, and
\* U+212A (the Kelvin sign) for k
LoweredTo(c) ==
  (IF c \in Upper THEN {} ELSE {c})
    \cup (IF c \in Lower THEN {OtherCase(c)} ELSE {})
    \cup (IF c = "k" THEN {"\\u212A"} ELSE {})

\* s.toLowerCase().startsWith(p), for p of ASCII characters. toLowerCase
\* changes letters outside ASCII as well, and makes two code units of U+0130
\* (i and U+0307), but of the code units outside ASCII only U+212A and U+0130
\* give text that begins with an ASCII character: the lowered text starts with
\* p exactly when each of the first code units of s is lowered to the
\* character of p at its place, where U+0130 can stand for a last i only.
LowerStartsWith(s, p) ==
  /\ Len(s) >= Len(p)
  /\ \A i \in 1..Len(p) :
       \/ s[i] \in LoweredTo(p[i])
       \/ (i = Len(p) /\ p[i] = "i" /\ s[i] = "\\u0130")

\* ------------------------------------------------------------------------
\* A backtracking regular-expression matcher with the priority order of
\* JavaScript: Match returns the end positions of the matches of re that
\* start at position i (0-based, the number of characters before it), in the
\* order a backtracking engine tries them; the first is the match it takes.
\* ------------------------------------------------------------------------
Cls(cs) == [k |-> "cls", cs |-> cs]
Ch(c) == Cls({c})
\* a literal ASCII letter under the i flag matches either case: Canonicalize
\* puts no character outside ASCII with an ASCII one
ChI(c, ci) == IF ci THEN Cls({c, OtherCase(c)}) ELSE Cls({c})
Cat(rs) == [k |-> "cat", rs |-> rs]
Alt(rs) == [k |-> "alt", rs |-> rs]
\* r{lo,hi}
Rep(r, lo, hi) == [k |-> "rep", r |-> r, lo |-> lo, hi |-> hi, open |-> FALSE]
\* r{lo,}, and r+ with lo = 1: no upper limit
RepFrom(r, lo) == [k |-> "rep", r |-> r, lo |-> lo, hi |-> lo, open |-> TRUE]
Opt(r) == Rep(r, 0, 1)
WordBoundary == [k |-> "wb"]
LookAhead(r) == [k |-> "look", r |-> r]

IsWordAt(s, i) == i >= 1 /\ i <= Len(s) /\ s[i] \in WordChar

RECURSIVE Match(_, _, _)
RECURSIVE MatchCat(_, _, _, _)
RECURSIVE MatchAlt(_, _, _, _)
RECURSIVE MatchRep(_, _, _, _)
RECURSIVE MatchFrom(_, _, _, _, _)

\* the matches of re from each of the starts ps[lo], ..., ps[hi], in order
\* (the starts are halved, so that a long list of starts nests shallowly)
MatchFrom(re, s, ps, lo, hi) ==
  IF lo > hi THEN << >>
  ELSE IF lo = hi THEN Match(re, s, ps[lo])
  ELSE LET mid == (lo + hi) \div 2
       IN  MatchFrom(re, s, ps, lo, mid) \o MatchFrom(re, s, ps, mid + 1, hi)

MatchCat(rs, j, s, ps) ==
  IF j > Len(rs) \/ ps = << >> THEN ps
  ELSE MatchCat(rs, j + 1, s, MatchFrom(rs[j], s, ps, 1, Len(ps)))

MatchAlt(rs, j, s, i) ==
  IF j > Len(rs) THEN << >>
  ELSE Match(rs[j], s, i) \o MatchAlt(rs, j + 1, s, i)

RECURSIVE MatchRepFrom(_, _, _, _, _)
\* greedy: one more iteration is tried before stopping
MatchRepFrom(re, n, s, ps, j) ==
  IF j > Len(ps) THEN << >>
  ELSE (IF ps[j][2] THEN MatchRep(re, n, s, ps[j][1]) ELSE << >>)
       \o MatchRepFrom(re, n, s, ps, j + 1)

\* the repetition of a character class: every iteration takes one character,
\* so the ends are those of the longest run first, down to lo characters
MatchRepCls(re, s, i) ==
  LET most == IF re.open \/ re.hi > Len(s) - i THEN Len(s) - i ELSE re.hi
      run == Cardinality({k \in 1..most : \A q \in 1..k : s[i + q] \in re.r.cs})
  IN  IF run < re.lo THEN << >>
      ELSE [x \in 1..(run - re.lo + 1) |-> i + run - x + 1]

MatchRep(re, n, s, i) ==
  LET more == IF re.open \/ n < re.hi
              THEN LET es == Match(re.r, s, i)
                       \* an iteration that consumes nothing is not repeated
                       tagged == [x \in 1..Len(es) |-> <<es[x], es[x] > i \/ n < re.lo>>]
                   IN  MatchRepFrom(re, n + 1, s, tagged, 1)
              ELSE << >>
      stop == IF n >= re.lo THEN <<i>> ELSE << >>
  IN  more \o stop

Match(re, s, i) ==
  CASE re.k = "cls" -> IF i < Len(s) /\ s[i + 1] \in re.cs THEN <<i + 1>> ELSE << >>
    [] re.k = "cat" -> MatchCat(re.rs, 1, s, <<i>>)
    [] re.k = "alt" -> MatchAlt(re.rs, 1, s, i)
    [] re.k = "rep" -> IF re.r.k = "cls" THEN MatchRepCls(re, s, i)
                       ELSE MatchRep(re, 0, s, i)
    [] re.k = "wb" -> IF IsWordAt(s, i) # IsWordAt(s, i + 1) THEN <<i>> ELSE << >>
    [] re.k = "look" -> IF Match(re.r, s, i) # << >> THEN <<i>> ELSE << >>

\* RegExp.prototype.exec from lastIndex `from`: <<start, end>> of the leftmost
\* match, or << >> when there is none
Exec(re, s, from) ==
  LET starts == {p \in from..Len(s) : Match(re, s, p) # << >>}
  IN  IF starts = {} THEN << >>
      ELSE LET p == CHOOSE q \in starts : \A r \in starts : q <= r
           IN  <<p, Match(re, s, p)[1]>>

\* RegExp.prototype.test of a regular expression whose lastIndex is 0
Test(re, s) == Exec(re, s, 0) # << >>

RECURSIVE MatchAll(_, _, _)
\* String.prototype.match with a g-flagged regular expression: every match,
\* left to right, as substrings (<< >> stands for null)
MatchAll(re, s, from) ==
  LET m == Exec(re, s, from)
  IN  IF m = << >> THEN << >>
      ELSE <<SubSeq(s, m[1] + 1, m[2])>>
           \o MatchAll(re, s, IF m[2] = m[1] THEN m[2] + 1 ELSE m[2])

\* ------------------------------------------------------------------------
\* The regular expressions of the source
\* ------------------------------------------------------------------------
Colon == Ch(":")
Dot == Ch(".")
HexDigit == Cls(Hex)
AnyDigit == Cls(Digit)

\* (25[0-5]|2[0-4][0-9]|[01]?[0-9][0-9]?)
Octet4 ==
  Alt(<< Cat(<<Ch("2"), Ch("5"), Cls({"0","1","2","3","4","5"})>>),
         Cat(<<Ch("2"), Cls({"0","1","2","3","4"}), AnyDigit>>),
         Cat(<<Opt(Cls({"0","1"})), AnyDigit, Opt(AnyDigit)>>) >>)

\* regexIPv4.source
IPv4Source ==
  Cat(<< WordBoundary, Rep(Cat(<<Octet4, Dot>>), 3, 3), Octet4, WordBoundary >>)

\* [0-9a-fA-F]{1,4}
H4 == Rep(HexDigit, 1, 4)
\* ([0-9a-fA-F]{1,4}:)
H4Colon == Cat(<<H4, Colon>>)
\* (:[0-9a-fA-F]{1,4})
ColonH4 == Cat(<<Colon, H4>>)

\* (25[0-5]|(2[0-4]|1{0,1}[0-9]){0,1}[0-9])
Octet6 ==
  Alt(<< Cat(<<Ch("2"), Ch("5"), Cls({"0","1","2","3","4","5"})>>),
         Cat(<< Opt(Alt(<< Cat(<<Ch("2"), Cls({"0","1","2","3","4"})>>),
                            Cat(<<Rep(Ch("1"), 0, 1), AnyDigit>>) >>)),
                AnyDigit >>) >>)

\* ((25[0-5]|...)\.){3,3}(25[0-5]|...)
DottedQuad6 == Cat(<< Rep(Cat(<<Octet6, Dot>>), 3, 3), Octet6 >>)

\* regexIPv6.source; ci is the i flag (the literals fe80 and ffff are the only
\* parts of the pattern it changes)
IPv6Source(ci) ==
  Cat(<<
    Alt(<<
      Cat(<<Rep(H4Colon, 7, 7), H4>>),
      Cat(<<Rep(H4Colon, 1, 7), Colon>>),
      Cat(<<Rep(H4Colon, 1, 6), Colon, H4>>),
      Cat(<<Rep(H4Colon, 1, 5), Rep(ColonH4, 1, 2)>>),
      Cat(<<Rep(H4Colon, 1, 4), Rep(ColonH4, 1, 3)>>),
      Cat(<<Rep(H4Colon, 1, 3), Rep(ColonH4, 1, 4)>>),
      Cat(<<Rep(H4Colon, 1, 2), Rep(ColonH4, 1, 5)>>),
      Cat(<<H4, Colon, Rep(ColonH4, 1, 6)>>),
      Cat(<<Colon, Alt(<<Rep(ColonH4, 1, 7), Colon>>)>>),
      Cat(<<ChI("f", ci), ChI("e", ci), Ch("8"), Ch("0"), Colon,
            Rep(Cat(<<Colon, Rep(HexDigit, 0, 4)>>), 0, 4),
            Ch("%"), RepFrom(Cls(AlNum), 1)>>),
      Cat(<<Colon, Colon,
            Opt(Cat(<<ChI("f", ci), ChI("f", ci), ChI("f", ci), ChI("f", ci),
                      Opt(Cat(<<Colon, Rep(Ch("0"), 1, 4)>>)), Colon>>)),
            DottedQuad6>>),
      Cat(<<Rep(H4Colon, 1, 4), Colon, DottedQuad6>>)
    >>),
    LookAhead(Alt(<<Cls(SpaceChar), WordBoundary>>))
  >>)

\* const regexIPv4 = /.../ (no flags)
regexIPv4 == IPv4Source
\* const regexIPv6 = /.../gi
regexIPv6 == IPv6Source(TRUE)
\* new RegExp(`${regexIPv4.source}|${regexIPv6.source}`, 'g'): the i flag of
\* regexIPv6 is not carried over by .source
regexAnyIP == Alt(<<IPv4Source, IPv6Source(FALSE)>>)

\* /typ ([a-z]+)/
regexTyp == Cat(<<Ch("t"), Ch("y"), Ch("p"), Ch(" "), RepFrom(Cls(Lower), 1)>>)
\* /([a-f0-9-]+\.local)/
regexLocal ==
  Cat(<<RepFrom(Cls(Digit \cup LowerHex \cup {"-"}), 1),
        Dot, Ch("l"), Ch("o"), Ch("c"), Ch("a"), Ch("l")>>)

\* ------------------------------------------------------------------------
\* String helpers of the JavaScript runtime
\* ------------------------------------------------------------------------
\* String.prototype.includes
Includes(s, sub) ==
  \E p \in 0..(Len(s) - Len(sub)) : SubSeq(s, p + 1, p + Len(sub)) = sub

\* String.prototype.split('.')
SplitDot(s) ==
  LET dots == {p \in 1..Len(s) : s[p] = "."}
      cuts == {0} \cup dots \cup {Len(s) + 1}
      NextCut(p) == CHOOSE q \in cuts : q > p /\ \A r \in cuts : r > p => q <= r
      starts == {0} \cup dots
      Ordered(n) == CHOOSE p \in starts : Cardinality({q \in starts : q < p}) = n - 1
  IN  [n \in 1..Cardinality(starts) |->
         SubSeq(s, Ordered(n) + 1, NextCut(Ordered(n)) - 1)]

DigitValue(c) ==
  CASE c = "0" -> 0 [] c = "1" -> 1 [] c = "2" -> 2 [] c = "3" -> 3 [] c = "4" -> 4
    [] c = "5" -> 5 [] c = "6" -> 6 [] c = "7" -> 7 [] c = "8" -> 8 [] c = "9" -> 9

DigitChar(d) ==
  CASE d = 0 -> "0" [] d = 1 -> "1" [] d = 2 -> "2" [] d = 3 -> "3" [] d = 4 -> "4"
    [] d = 5 -> "5" [] d = 6 -> "6" [] d = 7 -> "7" [] d = 8 -> "8" [] d = 9 -> "9"

RECURSIVE ToDigits(_)
\* the decimal text of a number n >= 0
ToDigits(n) ==
  IF n < 10 THEN <<DigitChar(n)>> ELSE Append(ToDigits(n \div 10), DigitChar(n % 10))

\* the order of two natural numbers given by their decimal digits without
\* leading zeros: -1, 0 or 1 as a is below, equal to or above b
CompareDigits(a, b) ==
  IF Len(a) # Len(b) THEN (IF Len(a) < Len(b) THEN -1 ELSE 1)
  ELSE LET differ == {i \in 1..Len(a) : a[i] # b[i]}
           i == CHOOSE j \in differ : \A q \in differ : j <= q
       IN  IF differ = {} THEN 0
           ELSE IF DigitValue(a[i]) < DigitValue(b[i]) THEN -1 ELSE 1

\* 2^53: every integer up to it is a Number (a double) of its own; the digits
\* of a larger one are rounded to the nearest double
TwoTo53 == <<"9","0","0","7","1","9","9","2","5","4","7","4","0","9","9","2">>

\* a Number that parseInt gives: NaN; an integer that is a double exactly, as
\* its sign (which -0 keeps) and its decimal digits; or the double nearest to
\* an integer beyond 2^53, of which the model keeps the sign alone
NaN == [kind |-> "NaN"]
Integer(negative, digits) ==
  [kind |-> "integer", negative |-> negative, digits |-> digits]
Beyond(negative) == [kind |-> "beyond", negative |-> negative]

\* the order of a Number x that is not NaN and an integer n, -1, 0 or 1; a
\* Number beyond 2^53 is beyond every integer the model writes
Compare(x, n) ==
  IF x.kind = "beyond" THEN (IF x.negative THEN -1 ELSE 1)
  ELSE LET below == x.negative /\ x.digits # <<"0">>
       IN  IF below /\ n >= 0 THEN -1
           ELSE IF ~below /\ n < 0 THEN 1
           ELSE IF below THEN 0 - CompareDigits(x.digits, ToDigits(0 - n))
           ELSE CompareDigits(x.digits, ToDigits(n))

\* x === n, x >= n and x <= n of a Number x and an integer n: none holds of NaN
StrictEquals(x, n) == x.kind # "NaN" /\ Compare(x, n) = 0
AtLeast(x, n) == x.kind # "NaN" /\ Compare(x, n) >= 0
AtMost(x, n) == x.kind # "NaN" /\ Compare(x, n) <= 0

\* parseInt(part, 10): leading white space is skipped, one sign is read, then
\* the digits up to the first other character; NaN when there is no digit
ParseInt(s) ==
  LET lead == {p \in 1..Len(s) : \A q \in 1..p : s[q] \in SpaceChar}
      sign == Cardinality(lead) + 1
      negative == sign <= Len(s) /\ s[sign] = "-"
      first == IF sign <= Len(s) /\ s[sign] \in {"+", "-"} THEN sign + 1 ELSE sign
      run == Cardinality({k \in 1..(Len(s) - first + 1) :
                            \A q \in 0..(k - 1) : s[first + q] \in Digit})
      zeros == Cardinality({k \in 1..run : \A q \in 0..(k - 1) : s[first + q] = "0"})
      digits == IF zeros = run THEN <<"0">>
                ELSE SubSeq(s, first + zeros, first + run - 1)
  IN  IF run = 0 THEN NaN
      ELSE IF CompareDigits(digits, TwoTo53) > 0 THEN Beyond(negative)
      ELSE Integer(negative, digits)

\* ------------------------------------------------------------------------
\* isPrivateIP
\* ------------------------------------------------------------------------
\* mutant of isPrivateIP: the 172 range has no lower end
isPrivateIPNoLowerEnd(ip) ==
  IF Test(regexIPv4, ip)
  THEN LET parts == [n \in DOMAIN SplitDot(ip) |-> ParseInt(SplitDot(ip)[n])]
       IN  \/ StrictEquals(parts[1], 10)
           \/ (StrictEquals(parts[1], 172) /\ AtMost(parts[2], 31))
           \/ (StrictEquals(parts[1], 192) /\ StrictEquals(parts[2], 168))
  ELSE IF Test(regexIPv6, ip)
  THEN \/ LowerStartsWith(ip, <<"f","c">>)
       \/ LowerStartsWith(ip, <<"f","d">>)
  ELSE FALSE

isPrivateIP(ip) ==
  IF Test(regexIPv4, ip)
  THEN LET parts == [n \in DOMAIN SplitDot(ip) |-> ParseInt(SplitDot(ip)[n])]
       IN  \/ StrictEquals(parts[1], 10)
           \/ (StrictEquals(parts[1], 172) /\ AtLeast(parts[2], 16) /\ AtMost(parts[2], 31))
           \/ (StrictEquals(parts[1], 192) /\ StrictEquals(parts[2], 168))
  ELSE IF Test(regexIPv6, ip)
  THEN \/ LowerStartsWith(ip, <<"f","c">>)
       \/ LowerStartsWith(ip, <<"f","d">>)
  ELSE FALSE

\* ------------------------------------------------------------------------
\* The candidate lines and the payloads the environment can deliver
\* ------------------------------------------------------------------------
\* "candidate:1 1 UDP 2122260223 192.168.1.5 54321 typ host"
CandHost ==
    <<"c","a","n","d","i","d","a","t","e",":","1"," ","1"," ","U","D","P",
      " ","2","1","2","2","2","6","0","2","2","3"," ","1","9","2",".","1",
      "6","8",".","1",".","5"," ","5","4","3","2","1"," ","t","y","p"," ",
      "h","o","s","t">>
\* "candidate:2 1 UDP 1686052607 203.0.113.9 54322 typ srflx"
CandSrflx ==
    <<"c","a","n","d","i","d","a","t","e",":","2"," ","1"," ","U","D","P",
      " ","1","6","8","6","0","5","2","6","0","7"," ","2","0","3",".","0",
      ".","1","1","3",".","9"," ","5","4","3","2","2"," ","t","y","p"," ",
      "s","r","f","l","x">>
\* "candidate:4 1 UDP 2122262783 fc00::abcd 54324 typ host"
CandHostV6 ==
    <<"c","a","n","d","i","d","a","t","e",":","4"," ","1"," ","U","D","P",
      " ","2","1","2","2","2","6","2","7","8","3"," ","f","c","0","0",":",
      ":","a","b","c","d"," ","5","4","3","2","4"," ","t","y","p"," ","h",
      "o","s","t">>
\* "candidate:5 1 UDP 2113937151 ab12-cd.local 54325 typ prflx"
CandMdns ==
    <<"c","a","n","d","i","d","a","t","e",":","5"," ","1"," ","U","D","P",
      " ","2","1","1","3","9","3","7","1","5","1"," ","a","b","1","2","-",
      "c","d",".","l","o","c","a","l"," ","5","4","3","2","5"," ","t","y",
      "p"," ","p","r","f","l","x">>

\* an event whose candidate is null (end of candidates)
NoCandidate == << >>

Candidates == <<CandHost, CandSrflx, CandHostV6, CandMdns, NoCandidate>>

\* '8.8.8.8'
Ip8888 == <<"8",".","8",".","8",".","8">>
\* '192.168.1.5'
Ip192 == <<"1","9","2",".","1","6","8",".","1",".","5">>
\* '203.0.113.9'
Ip203 == <<"2","0","3",".","0",".","1","1","3",".","9">>
\* 'Unknown'
Unknown == <<"U","n","k","n","o","w","n">>
\* 'host'
LabelHost == <<"h","o","s","t">>
\* 'srflx'
LabelSrflx == <<"s","r","f","l","x">>
\* 'relay'
LabelRelay == <<"r","e","l","a","y">>
\* '.local '
DotLocalSpace == <<".","l","o","c","a","l"," ">>

\* ------------------------------------------------------------------------
\* Bounds of the model
\* ------------------------------------------------------------------------
\* candidate events the environment dispatches in one run
MaxEvents == 2

\* ------------------------------------------------------------------------
\* Values of the JavaScript runtime
\* ------------------------------------------------------------------------
\* a property read that finds nothing
Undefined == "<undefined>"
\* the value of data.ip when the payload has no ip member
UndefinedIp == <<"undefined">>

\* obj[f], undefined when obj has no such member
Get(obj, f) == IF f \in DOMAIN obj THEN obj[f] ELSE Undefined

\* a || 'Unknown' for a member of a lookup payload
OrUnknown(data, f) == IF f \in DOMAIN data /\ data[f] # "" THEN data[f] ELSE "Unknown"

\* `${v}` in a template literal
ToText(v) == IF v = Undefined THEN "undefined" ELSE v

\* mutant of SetAdd: an array push, with no check for membership
SetAddAlways(set, x) == Append(set, x)

\* Set.prototype.add on a Set kept in insertion order
SetAdd(set, x) == IF \E i \in 1..Len(set) : set[i] = x THEN set ELSE Append(set, x)

RECURSIVE SetAddAll(_, _, _)
\* a forEach of Set.prototype.add over an array / new Set(array)
SetAddAll(set, xs, j) ==
  IF j > Len(xs) THEN set ELSE SetAddAll(SetAdd(set, xs[j]), xs, j + 1)

RECURSIVE FilterTruthy(_, _, _)
\* mutant of Filter: .filter(ip => ip), 'Unknown' is kept
FilterTruthy(xs, j, acc) ==
  IF j > Len(xs) THEN acc
  ELSE FilterTruthy(xs, j + 1,
                    IF xs[j] # UndefinedIp /\ xs[j] # << >>
                    THEN Append(acc, xs[j]) ELSE acc)

RECURSIVE Filter(_, _, _)
\* [primaryPublicIp, ...uniqueLeakedIPs].filter(ip => ip && ip !== 'Unknown')
Filter(xs, j, acc) ==
  IF j > Len(xs) THEN acc
  ELSE Filter(xs, j + 1,
              IF xs[j] # UndefinedIp /\ xs[j] # << >> /\ xs[j] # Unknown
              THEN Append(acc, xs[j]) ELSE acc)

\* ------------------------------------------------------------------------
\* onicecandidate: what one candidate line adds to the run's structures
\* ------------------------------------------------------------------------
\* mutant of TypeLabel: the whole match is taken, not group 1
TypeLabelWholeMatch(candidate) ==
  LET m == Exec(regexTyp, candidate, 0)
  IN  IF m = << >> THEN << >> ELSE SubSeq(candidate, m[1] + 1, m[2])

\* candidate.match(/typ ([a-z]+)/): group 1, << >> when there is no match
TypeLabel(candidate) ==
  LET m == Exec(regexTyp, candidate, 0)
  IN  IF m = << >> THEN << >> ELSE SubSeq(candidate, m[1] + 5, m[2])

\* the mDNS host name of the line, << >> when there is none
LocalHostname(candidate) ==
  IF Includes(candidate, DotLocalSpace)
  THEN LET m == Exec(regexLocal, candidate, 0)
       IN  IF m = << >> THEN << >> ELSE SubSeq(candidate, m[1] + 1, m[2])
  ELSE << >>

\* candidate.match(new RegExp(..., 'g'))
ExtractIps(candidate) == MatchAll(regexAnyIP, candidate, 0)

\* the three extractions, computed once per candidate line of the model
Parsed ==
  [i \in 1..Len(Candidates) |->
     [typ |-> TypeLabel(Candidates[i]),
      host |-> LocalHostname(Candidates[i]),
      ips |-> ExtractIps(Candidates[i])]]

\* mutant of CountType: iceCandidateTypes[t] = 1
CountTypeOnce(tally, t) ==
  [x \in DOMAIN tally \cup {t} |-> IF x = t THEN 1 ELSE tally[x]]

\* 'constructor': the one label of [a-z]+ that names a member iceCandidateTypes
\* inherits from Object.prototype
LabelConstructor == <<"c","o","n","s","t","r","u","c","t","o","r">>
\* String(Object), the text + makes of iceCandidateTypes.constructor:
\* 'function Object() { [native code] }'
ObjectText ==
    <<"f","u","n","c","t","i","o","n"," ","O","b","j","e","c","t","(",")"," ",
      "{"," ","[","n","a","t","i","v","e"," ","c","o","d","e","]"," ","}">>

\* iceCandidateTypes[t] = (iceCandidateTypes[t] || 0) + 1: the read finds the
\* member of the object itself, else the inherited one, else undefined; a
\* number has one added, the inherited function (and the text then stored) has
\* '1' appended
CountType(tally, t) ==
  [x \in DOMAIN tally \cup {t} |->
     IF x # t THEN tally[x]
     ELSE IF t = LabelConstructor
     THEN (IF t \in DOMAIN tally THEN tally[t] ELSE ObjectText) \o <<"1">>
     ELSE (IF t \in DOMAIN tally THEN tally[t] ELSE 0) + 1]

\* ------------------------------------------------------------------------
\* getGeoData: the record one lookup resolves with
\* ------------------------------------------------------------------------
\* what the geo service can answer to one lookup: the fetch rejects, a status
\* that is not ok (with a body that response.text() reads, or one it fails to
\* read), a body that is not the JSON of an object, or a payload (here one
\* that has some members, an empty one and lacks others)
GeoResponses ==
  { [kind |-> "network_error"],
    [kind |-> "status_error"],
    [kind |-> "status_error_unread"],
    [kind |-> "malformed_payload"],
    [kind |-> "ok", data |-> [country_name |-> "US", city |-> "",
                               timezone |-> "America/Los_Angeles",
                               latitude |-> "37.4", longitude |-> "-122.1",
                               hosting |-> TRUE, org |-> "GOOGLE"]] }

getGeoData(ip, resp) ==
  IF resp.kind = "status_error" THEN [error |-> "Failed to fetch GeoIP"]
  ELSE IF resp.kind # "ok" THEN [error |-> "Error fetching GeoIP"]
  ELSE [country |-> OrUnknown(resp.data, "country_name"),
        city |-> OrUnknown(resp.data, "city"),
        postal_code |-> OrUnknown(resp.data, "postal"),
        time_zone |-> OrUnknown(resp.data, "timezone"),
        latitude |-> OrUnknown(resp.data, "latitude"),
        longitude |-> OrUnknown(resp.data, "longitude"),
        isVPN |-> IF "hosting" \in DOMAIN resp.data THEN resp.data.hosting ELSE FALSE,
        org |-> OrUnknown(resp.data, "org"),
        asn |-> OrUnknown(resp.data, "asn")]

\* getGeoData(ip).then(data => ({ ip, ...data }))
WithIp(ip, data) ==
  [f \in DOMAIN data \cup {"ip"} |-> IF f = "ip" THEN ip ELSE data[f]]

\* ------------------------------------------------------------------------
\* The report
\* ------------------------------------------------------------------------
\* the addresses a run of the model can hold: those of the candidate lines and
\* those the primary-address service answers
KnownAddresses ==
  UNION {{Parsed[i].ips[j] : j \in 1..Len(Parsed[i].ips)} : i \in 1..Len(Candidates)}
  \cup {Ip8888, Ip192}

\* isPrivateIP, computed once per address of the model
IsPrivate == [ip \in KnownAddresses |-> isPrivateIP(ip)]

\* mutant of Block: the private range is tested before the primary address
BlockPrivateFirst(geo, primary) ==
  [ip |-> geo.ip,
   type |-> IF IsPrivate[geo.ip] THEN "Local (Private)"
            ELSE IF geo.ip = primary THEN "Public (Primary)"
            ELSE "Leaked",
   note |-> IF "isVPN" \in DOMAIN geo THEN geo.isVPN ELSE FALSE,
   country |-> ToText(Get(geo, "country")),
   city |-> ToText(Get(geo, "city")),
   postal_code |-> ToText(Get(geo, "postal_code")),
   time_zone |-> ToText(Get(geo, "time_zone")),
   latitude |-> ToText(Get(geo, "latitude")),
   longitude |-> ToText(Get(geo, "longitude"))]

\* mutant of Block: an address whose lookup failed is not called private
BlockFailedNotPrivate(geo, primary) ==
  [ip |-> geo.ip,
   type |-> IF geo.ip = primary THEN "Public (Primary)"
            ELSE IF IsPrivate[geo.ip] /\ "error" \notin DOMAIN geo THEN "Local (Private)"
            ELSE "Leaked",
   note |-> IF "isVPN" \in DOMAIN geo THEN geo.isVPN ELSE FALSE,
   country |-> ToText(Get(geo, "country")),
   city |-> ToText(Get(geo, "city")),
   postal_code |-> ToText(Get(geo, "postal_code")),
   time_zone |-> ToText(Get(geo, "time_zone")),
   latitude |-> ToText(Get(geo, "latitude")),
   longitude |-> ToText(Get(geo, "longitude"))]

\* one per-address block of logContent
Block(geo, primary) ==
  [ip |-> geo.ip,
   type |-> IF geo.ip = primary THEN "Public (Primary)"
            ELSE IF IsPrivate[geo.ip] THEN "Local (Private)"
            ELSE "Leaked",
   note |-> IF "isVPN" \in DOMAIN geo THEN geo.isVPN ELSE FALSE,
   country |-> ToText(Get(geo, "country")),
   city |-> ToText(Get(geo, "city")),
   postal_code |-> ToText(Get(geo, "postal_code")),
   time_zone |-> ToText(Get(geo, "time_zone")),
   latitude |-> ToText(Get(geo, "latitude")),
   longitude |-> ToText(Get(geo, "longitude"))]

\* logContent as it is handed to logToServer
FormatLog(results, primary, tally, hostnames, fp) ==
  [kind |-> "report",
   fingerprint |-> fp,
   types |-> tally,
   hostnames |-> hostnames,
   blocks |-> [i \in 1..Len(results) |-> Block(results[i], primary)]]

\* the text sent when RTCPeerConnection is missing
UnsupportedLog == [kind |-> "unsupported"]

\* ------------------------------------------------------------------------
\* State
\* ------------------------------------------------------------------------
VARIABLES
  capability,       \* window.RTCPeerConnection (or a prefixed variant) exists
  environment,      \* the other interfaces of the browser the callback asks for
  pc,               \* where the run is: the await or timer it is suspended at
  connection,       \* the RTCPeerConnection: created, listener registered, closed
  timer,            \* the setTimeout of the collection window: none, armed, fired
  negotiationError, \* createOffer / setLocalDescription rejected (logged)
  uniqueLeakedIPs,  \* the Set of addresses, in insertion order
  iceCandidateTypes,\* the tally object
  localHostnames,   \* the Set of mDNS names, in insertion order
  primaryPublicIp,  \* the primary public address ('Unknown' until looked up)
  allUniqueIps,     \* the consolidated Set the lookups are issued for
  geoSlots,         \* one slot per issued lookup: pending, or settled with its record
  sink,             \* logToServer: number of calls, content sent, outcome logged
  events,           \* candidate events dispatched, and those no listener received
  fingerprint,      \* the members the fingerprint object has
  probes,           \* the asynchronous probes: idle, pending, done or rejected
  atTeardown,       \* the three structures as they were when the timer fired
  call,             \* a direct call of isPrivateIP: its argument and what it returned
  overtaken         \* history of the join, kept until the report is delivered: the
                    \* lookup that settled last was not the one issued last

vars == <<capability, environment, pc, connection, timer, negotiationError, uniqueLeakedIPs,
          iceCandidateTypes, localHostnames, primaryPublicIp, allUniqueIps,
          geoSlots, sink, events, fingerprint, probes, atTeardown, call, overtaken>>

\* no direct call of isPrivateIP is under way
NoCall == [state |-> "none"]

\* a lookup at its await of fetch
Pending == [state |-> "pending"]
\* a lookup whose fetch resolved, at its await of response.text() (the status
\* was not ok) or of response.json()
Reading(ok) == [state |-> IF ok THEN "json" ELSE "text"]
Settled(value) == [state |-> "settled", value |-> value]

\* what the sink can answer: 2xx, 4xx/5xx, or the fetch rejects
SinkOutcomes == {"ok", "http_error", "network_error"}

\* what response.json() of the primary-address service can settle with: a
\* payload with an address, one without, or a body that does not parse
PrimaryBodies ==
  { [kind |-> "ok", ip |-> Ip8888],
    [kind |-> "ok", ip |-> Ip192],
    [kind |-> "ok", ip |-> UndefinedIp],
    [kind |-> "malformed_payload"] }

\* the interfaces the callback tests for, or guards with try/catch:
\* Intl.DateTimeFormat, the 2d canvas, WebGL with WEBGL_debug_renderer_info,
\* OfflineAudioContext, navigator.mediaDevices.enumerateDevices and
\* navigator.connection
Features == {"Intl", "canvas", "webgl", "OfflineAudioContext", "mediaDevices", "connection"}

\* what an environment can say of the promise that startRendering() or
\* enumerateDevices() returns: it is resolved, or rejected, already when it is
\* returned. Of an environment that says neither, the promise is pending and
\* settles in a later turn.
AudioResolved == "startRendering resolved"
AudioFailed == "startRendering rejected"
DevicesResolved == "enumerateDevices resolved"
DevicesFailed == "enumerateDevices rejected"

\* the browsers of the model: one that has every interface, one that has
\* none of those a browser may lack, and one that has every interface and
\* whose probes are settled when they are started
Environments ==
  {Features, {"Intl", "canvas"}, Features \cup {AudioResolved, DevicesFailed}}

Init ==
  /\ capability \in BOOLEAN
  /\ environment \in Environments
  /\ pc = "start"
  /\ connection = [created |-> FALSE, listener |-> FALSE, closed |-> FALSE]
  /\ timer = "none"
  /\ negotiationError = FALSE
  /\ uniqueLeakedIPs = << >>
  /\ iceCandidateTypes = (LabelHost :> 0) @@ (LabelSrflx :> 0) @@ (LabelRelay :> 0)
  /\ localHostnames = << >>
  /\ primaryPublicIp = Unknown
  /\ allUniqueIps = << >>
  /\ geoSlots = << >>
  /\ sink = [calls |-> 0, content |-> [kind |-> "none"], outcome |-> "none"]
  /\ events = [dispatched |-> 0, ignored |-> 0]
  /\ fingerprint = {}
  /\ probes = [audio |-> "idle", devices |-> "idle"]
  /\ atTeardown = [taken |-> FALSE]
  /\ call = NoCall
  /\ overtaken = FALSE

\* logToServer(content) up to its await of fetch
logToServer(content) ==
  sink' = [calls |-> sink.calls + 1, content |-> content, outcome |-> "pending"]

\* mutant of RunLeakTest: the return after the unsupported report is missing
RunLeakTestNoReturn ==
  /\ pc = "start"
  /\ IF ~capability THEN logToServer(UnsupportedLog) ELSE UNCHANGED sink
  /\ connection' = [created |-> TRUE, listener |-> TRUE, closed |-> FALSE]
  /\ pc' = "createOffer"
  /\ UNCHANGED <<overtaken, call, capability, environment, timer, negotiationError, uniqueLeakedIPs,
                 iceCandidateTypes, localHostnames, primaryPublicIp,
                 allUniqueIps, geoSlots, events, atTeardown, fingerprint,
                 probes>>

\* mutant of RunLeakTest: setTimeout is called before the offer is awaited
RunLeakTestTimerFirst ==
  /\ pc = "start"
  /\ IF ~capability
     THEN /\ logToServer(UnsupportedLog)
          /\ pc' = "send"
          /\ UNCHANGED <<connection, timer>>
     ELSE /\ connection' = [created |-> TRUE, listener |-> TRUE, closed |-> FALSE]
          /\ timer' = "armed"
          /\ pc' = "createOffer"
          /\ UNCHANGED sink
  /\ UNCHANGED <<overtaken, call, capability, environment, negotiationError, uniqueLeakedIPs,
                 iceCandidateTypes, localHostnames, primaryPublicIp,
                 allUniqueIps, geoSlots, events, atTeardown, fingerprint,
                 probes>>

\* ------------------------------------------------------------------------
\* runLeakTest up to its first await
\* ------------------------------------------------------------------------
RunLeakTest ==
  /\ pc = "start"
  /\ IF ~capability
     THEN /\ logToServer(UnsupportedLog)
          /\ pc' = "send"
          /\ UNCHANGED connection
     ELSE /\ connection' = [created |-> TRUE, listener |-> TRUE, closed |-> FALSE]
          /\ pc' = "createOffer"
          /\ UNCHANGED sink
  /\ UNCHANGED <<overtaken, call, capability, environment, timer, negotiationError, uniqueLeakedIPs,
                 iceCandidateTypes, localHostnames, primaryPublicIp,
                 allUniqueIps, geoSlots, events, atTeardown, fingerprint,
                 probes>>

\* setTimeout(callback, timeout)
ArmTimer == timer' = "armed" /\ pc' = "window"

\* mutant of CreateOfferSettles: no try/catch, a rejection ends runLeakTest
CreateOfferSettlesAbort(ok) ==
  /\ pc = "createOffer"
  /\ IF ok
     THEN pc' = "setLocalDescription" /\ UNCHANGED <<timer, negotiationError>>
     ELSE negotiationError' = TRUE /\ pc' = "done" /\ UNCHANGED timer
  /\ UNCHANGED <<overtaken, call, capability, environment, connection, uniqueLeakedIPs, iceCandidateTypes,
                 localHostnames, primaryPublicIp, allUniqueIps, geoSlots, sink,
                 events, atTeardown, fingerprint, probes>>

\* await connection.createOffer() settles
CreateOfferSettles(ok) ==
  /\ pc = "createOffer"
  /\ IF ok
     THEN pc' = "setLocalDescription" /\ UNCHANGED <<timer, negotiationError>>
     ELSE negotiationError' = TRUE /\ ArmTimer
  /\ UNCHANGED <<overtaken, call, capability, environment, connection, uniqueLeakedIPs, iceCandidateTypes,
                 localHostnames, primaryPublicIp, allUniqueIps, geoSlots, sink,
                 events, atTeardown, fingerprint, probes>>

\* await connection.setLocalDescription(offer) settles
SetLocalDescriptionSettles(ok) ==
  /\ pc = "setLocalDescription"
  /\ negotiationError' = ~ok
  /\ ArmTimer
  /\ UNCHANGED <<overtaken, call, capability, environment, connection, uniqueLeakedIPs, iceCandidateTypes,
                 localHostnames, primaryPublicIp, allUniqueIps, geoSlots, sink,
                 events, atTeardown, fingerprint, probes>>

\* ------------------------------------------------------------------------
\* The candidate handler
\* ------------------------------------------------------------------------
onicecandidate(i) ==
  IF Candidates[i] # NoCandidate
  THEN /\ iceCandidateTypes' = IF Parsed[i].typ # << >>
                               THEN CountType(iceCandidateTypes, Parsed[i].typ)
                               ELSE iceCandidateTypes
       /\ localHostnames' = IF Parsed[i].host # << >>
                            THEN SetAdd(localHostnames, Parsed[i].host)
                            ELSE localHostnames
       /\ uniqueLeakedIPs' = SetAddAll(uniqueLeakedIPs, Parsed[i].ips, 1)
  ELSE UNCHANGED <<iceCandidateTypes, localHostnames, uniqueLeakedIPs>>

\* mutant of Dispatch: the handler runs whether or not it is still registered
DispatchAlways(i) ==
  onicecandidate(i) /\ events' = [events EXCEPT !.dispatched = @ + 1]

\* the connection dispatches an icecandidate event to its listeners
Dispatch(i) ==
  IF connection.listener
  THEN onicecandidate(i) /\ events' = [events EXCEPT !.dispatched = @ + 1]
  ELSE /\ events' = [dispatched |-> events.dispatched + 1, ignored |-> events.ignored + 1]
       /\ UNCHANGED <<iceCandidateTypes, localHostnames, uniqueLeakedIPs>>

IceCandidateEvent(i) ==
  /\ connection.created
  /\ pc # "done"
  /\ events.dispatched < MaxEvents
  /\ Dispatch(i)
  /\ UNCHANGED <<overtaken, call, capability, environment, pc, connection, timer, negotiationError,
                 primaryPublicIp, allUniqueIps, geoSlots, sink, atTeardown,
                 fingerprint, probes>>

\* ------------------------------------------------------------------------
\* The timer callback
\* ------------------------------------------------------------------------
\* mutant of Teardown: the connection is closed, the handler stays registered
TeardownKeepListener == connection' = [connection EXCEPT !.closed = TRUE]

\* removeEventListener('icecandidate', onicecandidate); close()
Teardown == connection' = [connection EXCEPT !.listener = FALSE, !.closed = TRUE]

\* the callback up to its await of the primary-address fetch
TimerFires ==
  /\ timer = "armed"
  /\ timer' = "fired"
  /\ Teardown
  /\ atTeardown' = [taken |-> TRUE, ips |-> uniqueLeakedIPs,
                    types |-> iceCandidateTypes, hostnames |-> localHostnames]
  /\ pc' = "ipify"
  /\ UNCHANGED <<overtaken, call, capability, environment, negotiationError, uniqueLeakedIPs,
                 iceCandidateTypes, localHostnames, primaryPublicIp,
                 allUniqueIps, geoSlots, sink, events, fingerprint, probes>>

\* the members the callback sets before it reaches the join: the navigator
\* properties always, the others when the interface they are read from is there
SyncMembers(env) ==
  {"navigator"}
  \cup (IF "Intl" \in env THEN {"timeZone", "utcOffset"} ELSE {})
  \cup (IF "canvas" \in env THEN {"canvasHash"} ELSE {})
  \cup (IF "webgl" \in env THEN {"gpuVendor", "gpuRenderer"} ELSE {})
  \cup (IF "connection" \in env THEN {"networkInfo"} ELSE {})

\* the asynchronous probes the callback starts: startRendering() when an
\* OfflineAudioContext can be made, enumerateDevices() when it exists. The
\* reaction to a promise that is settled already runs before the callback
\* goes on from its await of the join, and before any other turn.
StartProbes(env) ==
  [audio |-> IF "OfflineAudioContext" \notin env THEN "idle"
             ELSE IF AudioResolved \in env THEN "done"
             ELSE IF AudioFailed \in env THEN "rejected"
             ELSE "pending",
   devices |-> IF "mediaDevices" \notin env THEN "idle"
               ELSE IF DevicesResolved \in env THEN "done"
               ELSE IF DevicesFailed \in env THEN "rejected"
               ELSE "pending"]

\* the members that the probes resolved already have set when the callback
\* goes on from its await of the join
ProbeMembers(env) ==
  (IF StartProbes(env).audio = "done" THEN {"audioHash"} ELSE {})
  \cup (IF StartProbes(env).devices = "done" THEN {"mediaDevices"} ELSE {})

AllSettled(slots) == \A i \in 1..Len(slots) : slots[i].state = "settled"

RECURSIVE DropFailed(_, _)
DropFailed(slots, j) ==
  IF j > Len(slots) THEN << >>
  ELSE (IF "error" \in DOMAIN slots[j].value THEN << >> ELSE <<slots[j].value>>)
       \o DropFailed(slots, j + 1)

\* mutant of GeoResults: the records of failed lookups are left out
GeoResultsDropFailed(slots) == DropFailed(slots, 1)

\* await Promise.all(geoDataPromises): the records in the order of the lookups
GeoResults(slots) == [i \in 1..Len(slots) |-> slots[i].value]

\* the callback from the join to its await of logToServer
FormatAndSend(slots, primary, fp) ==
  /\ logToServer(FormatLog(GeoResults(slots), primary, iceCandidateTypes,
                           localHostnames, fp))
  /\ pc' = "send"

\* mutant of Consolidate: the filter of 'Unknown' and empty values is missing
ConsolidateNoFilter(primary, leaked) == SetAddAll(<< >>, <<primary>> \o leaked, 1)

\* new Set([primaryPublicIp, ...uniqueLeakedIPs].filter(...))
Consolidate(primary, leaked) == SetAddAll(<< >>, Filter(<<primary>> \o leaked, 1, << >>), 1)

\* mutant of StartLookups: the lookups are made one after the other
StartLookupsInTurn(ips) ==
  [i \in 1..Len(ips) |-> IF i = 1 THEN Pending ELSE [state |-> "unstarted"]]

\* [...allUniqueIps].map(ip => getGeoData(ip).then(...)): every call runs to its
\* fetch before map returns
StartLookups(ips) == [i \in 1..Len(ips) |-> Pending]

\* the callback from the end of the try/catch of the primary address to the
\* join: the fingerprint, the probes, the consolidated set and its lookups. With
\* nothing to look up the join is of no promise and the callback goes on to
\* the report within the same turn, after the reactions to the probes that
\* were settled when they were started; a probe that was pending is pending
\* still.
CollectAndLookUp(primary) ==
  LET ips == Consolidate(primary, uniqueLeakedIPs)
      slots == StartLookups(ips)
      members == SyncMembers(environment) \cup ProbeMembers(environment)
  IN  /\ primaryPublicIp' = primary
      /\ allUniqueIps' = ips
      /\ geoSlots' = slots
      /\ fingerprint' = members
      /\ probes' = StartProbes(environment)
      /\ IF AllSettled(slots)
         THEN FormatAndSend(slots, primary, members)
         ELSE pc' = "geo" /\ UNCHANGED sink

\* await fetch('https://api.ipify.org?format=json') settles: resolved, the
\* callback goes on to await response.json(); rejected, the catch leaves
\* primaryPublicIp as it is and the callback runs on
PrimaryFetchSettles(ok) ==
  /\ pc = "ipify"
  /\ IF ok
     THEN /\ pc' = "ipifyJson"
          /\ UNCHANGED <<primaryPublicIp, allUniqueIps, geoSlots, fingerprint,
                         probes, sink>>
     ELSE CollectAndLookUp(primaryPublicIp)
  /\ UNCHANGED <<overtaken, call, capability, environment, connection, timer,
                 negotiationError, uniqueLeakedIPs, iceCandidateTypes,
                 localHostnames, events, atTeardown>>

\* await response.json() settles: primaryPublicIp = data.ip, or the catch
PrimaryJsonSettles(body) ==
  /\ pc = "ipifyJson"
  /\ CollectAndLookUp(IF body.kind = "ok" THEN body.ip ELSE primaryPublicIp)
  /\ UNCHANGED <<overtaken, call, capability, environment, connection, timer,
                 negotiationError, uniqueLeakedIPs, iceCandidateTypes,
                 localHostnames, events, atTeardown>>

\* the await of getGeoData that the answer resp settles: a rejected fetch that
\* of fetch, a body (read or not) that of response.text() or response.json()
AwaitOf(resp) ==
  CASE resp.kind = "network_error" -> "pending"
    [] resp.kind \in {"status_error", "status_error_unread"} -> "text"
    [] OTHER -> "json"

\* the fetch of lookup i resolves with a response, whose status is ok or not
GeoFetchResolves(i, ok) ==
  /\ pc = "geo"
  /\ geoSlots[i].state = "pending"
  /\ geoSlots' = [geoSlots EXCEPT ![i] = Reading(ok)]
  /\ UNCHANGED <<overtaken, call, capability, environment, pc, connection, timer,
                 negotiationError, uniqueLeakedIPs, iceCandidateTypes,
                 localHostnames, primaryPublicIp, allUniqueIps, sink, events,
                 atTeardown, fingerprint, probes>>

\* mutant of GeoSettles: getGeoData lets a failure through, the join rejects and
\* the callback ends there
GeoSettlesFailFast(i, resp) ==
  /\ pc = "geo"
  /\ geoSlots[i].state = AwaitOf(resp)
  /\ overtaken' = (i < Len(geoSlots) /\ \A j \in 1..Len(geoSlots) :
                                          j # i => geoSlots[j].state = "settled")
  /\ LET slots == [geoSlots EXCEPT
                     ![i] = Settled(WithIp(allUniqueIps[i],
                                           getGeoData(allUniqueIps[i], resp)))]
     IN  /\ geoSlots' = slots
         /\ IF resp.kind # "ok"
            THEN pc' = "done" /\ UNCHANGED sink
            ELSE IF AllSettled(slots)
            THEN FormatAndSend(slots, primaryPublicIp, fingerprint)
            ELSE UNCHANGED <<pc, sink>>
  /\ UNCHANGED <<call, capability, environment, connection, timer, negotiationError,
                 uniqueLeakedIPs, iceCandidateTypes, localHostnames,
                 primaryPublicIp, allUniqueIps, events, atTeardown,
                 fingerprint, probes>>

\* mutant of GeoSettles: each record is pushed to the results when its lookup
\* settles, so the last to settle comes last
GeoSettlesPush(i, resp) ==
  /\ pc = "geo"
  /\ geoSlots[i].state = AwaitOf(resp)
  /\ overtaken' = (i < Len(geoSlots) /\ \A j \in 1..Len(geoSlots) :
                                          j # i => geoSlots[j].state = "settled")
  /\ LET slots == [geoSlots EXCEPT
                     ![i] = Settled(WithIp(allUniqueIps[i],
                                           getGeoData(allUniqueIps[i], resp)))]
     IN  /\ geoSlots' = slots
         /\ IF AllSettled(slots)
            THEN FormatAndSend(
                   [k \in 1..Len(slots) |->
                      IF k < i THEN slots[k] ELSE IF k < Len(slots) THEN slots[k + 1] ELSE slots[i]],
                   primaryPublicIp, fingerprint)
            ELSE UNCHANGED <<pc, sink>>
  /\ UNCHANGED <<call, capability, environment, connection, timer, negotiationError,
                 uniqueLeakedIPs, iceCandidateTypes, localHostnames,
                 primaryPublicIp, allUniqueIps, events, atTeardown,
                 fingerprint, probes>>

\* lookup i settles with the record getGeoData makes of the answer; when it is
\* the last, the join resolves and the callback runs on
GeoSettles(i, resp) ==
  /\ pc = "geo"
  /\ geoSlots[i].state = AwaitOf(resp)
  /\ overtaken' = (i < Len(geoSlots) /\ \A j \in 1..Len(geoSlots) :
                                          j # i => geoSlots[j].state = "settled")
  /\ LET slots == [geoSlots EXCEPT
                     ![i] = Settled(WithIp(allUniqueIps[i],
                                           getGeoData(allUniqueIps[i], resp)))]
     IN  /\ geoSlots' = slots
         /\ IF AllSettled(slots)
            THEN FormatAndSend(slots, primaryPublicIp, fingerprint)
            ELSE UNCHANGED <<pc, sink>>
  /\ UNCHANGED <<call, capability, environment, connection, timer, negotiationError,
                 uniqueLeakedIPs, iceCandidateTypes, localHostnames,
                 primaryPublicIp, allUniqueIps, events, atTeardown,
                 fingerprint, probes>>

\* mutant of SinkSettles: a failed delivery is sent again
SinkSettlesRetry(outcome) ==
  /\ pc = "send"
  /\ overtaken' = FALSE
  /\ IF outcome = "ok"
     THEN sink' = [sink EXCEPT !.outcome = outcome] /\ pc' = "done"
     ELSE IF sink.calls = 1
     THEN logToServer(sink.content) /\ UNCHANGED pc
     ELSE sink' = [sink EXCEPT !.outcome = outcome] /\ pc' = "done"
  /\ UNCHANGED <<call, capability, environment, connection, timer, negotiationError,
                 uniqueLeakedIPs, iceCandidateTypes, localHostnames,
                 primaryPublicIp, allUniqueIps, geoSlots, events, atTeardown,
                 fingerprint, probes>>

\* the fetch of logToServer settles; the outcome is logged and nothing is retried
SinkSettles(outcome) ==
  /\ pc = "send"
  /\ overtaken' = FALSE
  /\ sink' = [sink EXCEPT !.outcome = outcome]
  /\ pc' = "done"
  /\ UNCHANGED <<call, capability, environment, connection, timer, negotiationError,
                 uniqueLeakedIPs, iceCandidateTypes, localHostnames,
                 primaryPublicIp, allUniqueIps, geoSlots, events, atTeardown,
                 fingerprint, probes>>

\* the promise of audioCtx.startRendering() resolves: the callback of then
\* sets fingerprint.audioHash
AudioRendered ==
  /\ probes.audio = "pending"
  /\ probes' = [probes EXCEPT !.audio = "done"]
  /\ fingerprint' = fingerprint \cup {"audioHash"}
  /\ UNCHANGED <<overtaken, call, capability, environment, pc, connection, timer, negotiationError, uniqueLeakedIPs,
                 iceCandidateTypes, localHostnames, primaryPublicIp, allUniqueIps,
                 geoSlots, sink, events, atTeardown>>

\* the promise of audioCtx.startRendering() rejects: nothing handles the
\* rejection, and the fingerprint gets no audioHash
AudioRejected ==
  /\ probes.audio = "pending"
  /\ probes' = [probes EXCEPT !.audio = "rejected"]
  /\ UNCHANGED fingerprint
  /\ UNCHANGED <<overtaken, call, capability, environment, pc, connection, timer, negotiationError, uniqueLeakedIPs,
                 iceCandidateTypes, localHostnames, primaryPublicIp, allUniqueIps,
                 geoSlots, sink, events, atTeardown>>

\* the promise of enumerateDevices() resolves: the callback of then sets
\* fingerprint.mediaDevices
DevicesEnumerated ==
  /\ probes.devices = "pending"
  /\ probes' = [probes EXCEPT !.devices = "done"]
  /\ fingerprint' = fingerprint \cup {"mediaDevices"}
  /\ UNCHANGED <<overtaken, call, capability, environment, pc, connection, timer, negotiationError, uniqueLeakedIPs,
                 iceCandidateTypes, localHostnames, primaryPublicIp, allUniqueIps,
                 geoSlots, sink, events, atTeardown>>

\* the promise of enumerateDevices() rejects: the callback of catch logs the
\* error, and the fingerprint gets no mediaDevices
DevicesRejected ==
  /\ probes.devices = "pending"
  /\ probes' = [probes EXCEPT !.devices = "rejected"]
  /\ UNCHANGED fingerprint
  /\ UNCHANGED <<overtaken, call, capability, environment, pc, connection, timer, negotiationError, uniqueLeakedIPs,
                 iceCandidateTypes, localHostnames, primaryPublicIp, allUniqueIps,
                 geoSlots, sink, events, atTeardown>>

\* the steps of the run and of the services it awaits
Progress ==
  \/ RunLeakTest
  \/ \E ok \in BOOLEAN : CreateOfferSettles(ok)
  \/ \E ok \in BOOLEAN : SetLocalDescriptionSettles(ok)
  \/ TimerFires
  \/ \E ok \in BOOLEAN : PrimaryFetchSettles(ok)
  \/ \E body \in PrimaryBodies : PrimaryJsonSettles(body)
  \/ \E i \in 1..Len(geoSlots), ok \in BOOLEAN : GeoFetchResolves(i, ok)
  \/ \E i \in 1..Len(geoSlots), resp \in GeoResponses : GeoSettles(i, resp)
  \/ \E outcome \in SinkOutcomes : SinkSettles(outcome)
  \/ AudioRendered
  \/ AudioRejected
  \/ DevicesEnumerated
  \/ DevicesRejected

Next ==
  \/ Progress
  \/ \E i \in 1..Len(Candidates) : IceCandidateEvent(i)

Spec == Init /\ [][Next]_vars

\* every await settles and the timer fires; candidate events need not arrive
FairSpec == Spec /\ WF_vars(Progress)

\* ------------------------------------------------------------------------
\* isPrivateIP called on its own: the argument is drawn when the call is made
\* ------------------------------------------------------------------------
\* how far around each boundary of the rule the octets of the arguments go
OctetSpread == 1

\* the literal a.b.c.d
QuadText(o) ==
  ToDigits(o[1]) \o <<".">> \o ToDigits(o[2]) \o <<".">>
    \o ToDigits(o[3]) \o <<".">> \o ToDigits(o[4])

Around(vs) == {v + k : v \in vs, k \in (0 - OctetSpread)..OctetSpread}
FirstOctets == {0, 255} \cup Around({10, 172, 192})
SecondOctets == {0, 255} \cup Around({16, 31, 168})
Quads == {<<a, b, 0, d>> : a \in FirstOctets, b \in SecondOctets, d \in {0, 1}}

\* IPv6 literals in the textual forms the extraction pattern has alternatives for
Ipv6Literals ==
  <<
     \* 'fc00::1'
     <<"f","c","0","0",":",":","1">>,
     \* 'fd12::1'
     <<"f","d","1","2",":",":","1">>,
     \* 'fe80::1'
     <<"f","e","8","0",":",":","1">>,
     \* 'FC00::1'
     <<"F","C","0","0",":",":","1">>,
     \* 'Fd12::1'
     <<"F","d","1","2",":",":","1">>,
     \* 'fd00:0:0:0:0:0:0:1'
     <<"f","d","0","0",":","0",":","0",":","0",":","0",":","0",":","0",":","1">>,
     \* 'fd00::192.168.1.1'
     <<"f","d","0","0",":",":","1","9","2",".","1","6","8",".","1",".","1">>,
     \* 'fc00::'
     <<"f","c","0","0",":",":">>,
     \* '::ffff:203.0.113.9'
     <<":",":","f","f","f","f",":","2","0","3",".","0",".","1","1","3",".","9">>,
     \* 'fe80::1%eth0'
     <<"f","e","8","0",":",":","1","%","e","t","h","0">>,
     \* '2001:db8::1'
     <<"2","0","0","1",":","d","b","8",":",":","1">>,
     \* 'fec0::1'
     <<"f","e","c","0",":",":","1">>
  >>

Called(family, arg, octets) ==
  [state |-> "called", family |-> family, arg |-> arg, octets |-> octets]

ClassifierInputs ==
  {Called("v4", QuadText(o), o) : o \in Quads}
  \cup {Called("v6", Ipv6Literals[i], << >>) : i \in 1..Len(Ipv6Literals)}

\* the script is loaded, the run has not started, isPrivateIP is called
ClassifierInit ==
  /\ capability \in BOOLEAN
  /\ environment \in Environments
  /\ pc = "start"
  /\ connection = [created |-> FALSE, listener |-> FALSE, closed |-> FALSE]
  /\ timer = "none"
  /\ negotiationError = FALSE
  /\ uniqueLeakedIPs = << >>
  /\ iceCandidateTypes = (LabelHost :> 0) @@ (LabelSrflx :> 0) @@ (LabelRelay :> 0)
  /\ localHostnames = << >>
  /\ primaryPublicIp = Unknown
  /\ allUniqueIps = << >>
  /\ geoSlots = << >>
  /\ sink = [calls |-> 0, content |-> [kind |-> "none"], outcome |-> "none"]
  /\ events = [dispatched |-> 0, ignored |-> 0]
  /\ fingerprint = {}
  /\ probes = [audio |-> "idle", devices |-> "idle"]
  /\ atTeardown = [taken |-> FALSE]
  /\ call \in ClassifierInputs
  /\ overtaken = FALSE

\* isPrivateIP(ip) returns
IsPrivateIPReturns ==
  /\ call.state = "called"
  /\ call' = [state |-> "returned", family |-> call.family, arg |-> call.arg,
              octets |-> call.octets, result |-> isPrivateIP(call.arg)]
  /\ UNCHANGED <<capability, environment, pc, connection, timer, negotiationError,
                 uniqueLeakedIPs, iceCandidateTypes, localHostnames,
                 primaryPublicIp, allUniqueIps, geoSlots, sink, events,
                 fingerprint, probes, atTeardown, overtaken>>

ClassifierNext == IsPrivateIPReturns

ClassifierSpec == ClassifierInit /\ [][ClassifierNext]_vars

\* ------------------------------------------------------------------------
\* Notions the properties share
\* ------------------------------------------------------------------------
ReportBuilt == sink.content.kind = "report"
TornDown == ~connection.listener /\ connection.closed
PrimaryKnown == primaryPublicIp \notin {Unknown, UndefinedIp, << >>}
NoDuplicate(s) == \A i, j \in 1..Len(s) : s[i] = s[j] => i = j
BlockIps == [i \in 1..Len(sink.content.blocks) |-> sink.content.blocks[i].ip]
Failed(i) == geoSlots[i].state = "settled" /\ "error" \in DOMAIN geoSlots[i].value

\* ------------------------------------------------------------------------
\* C1: every run calls logToServer exactly once: never more than once (a failed
\* delivery is not sent again), and the run reaches its end having called it,
\* whatever the candidate events, the negotiation, the lookups and the sink do.
\* ------------------------------------------------------------------------
C1_ExactlyOneReport ==
  /\ [](sink.calls <= 1)
  /\ [](pc = "done" => sink.calls = 1)
  /\ <>(pc = "done")

\* a full run whose negotiation failed and whose delivery failed
C1_Witness ==
  /\ pc = "done"
  /\ negotiationError
  /\ sink.outcome = "network_error"
  /\ ReportBuilt
  /\ \E i \in 1..Len(geoSlots) : Failed(i)

\* ------------------------------------------------------------------------
\* C2: once the connection exists, the handler is eventually deregistered and
\* the connection closed, and the report is eventually built, also when the
\* negotiation fails and when no candidate event arrives; the teardown is the
\* timer's, never earlier.
\* ------------------------------------------------------------------------
C2_TeardownAlways ==
  /\ <>connection.created => <>(TornDown /\ ReportBuilt)
  /\ [](connection.closed => timer = "fired")

\* negotiation failed, no candidate event, torn down, report built
C2_Witness ==
  /\ negotiationError
  /\ events.dispatched = 0
  /\ TornDown
  /\ ReportBuilt

\* ------------------------------------------------------------------------
\* C3: after the timer callback has deregistered the handler no step changes
\* the address set, the tally or the host-name set, and the report is built from
\* the values they had at teardown.
\* ------------------------------------------------------------------------
C3_LateEventsIgnored ==
  [][ /\ atTeardown.taken =>
           /\ uniqueLeakedIPs' = uniqueLeakedIPs
           /\ iceCandidateTypes' = iceCandidateTypes
           /\ localHostnames' = localHostnames
      /\ ReportBuilt' =>
           /\ sink'.content.types = atTeardown'.types
           /\ sink'.content.hostnames = atTeardown'.hostnames
           /\ BlockIps' = Consolidate(primaryPublicIp', atTeardown'.ips)
    ]_vars

\* an event was handled in the window, another came after teardown while a
\* lookup was pending, and the report is built
C3_Witness ==
  /\ events.ignored >= 1
  /\ uniqueLeakedIPs # << >>
  /\ pc = "send"
  /\ ReportBuilt

\* ------------------------------------------------------------------------
\* C4: the report is formatted only when every lookup issued has settled; it
\* then holds one record per address looked up, in the same number, and every
\* address of the address set has exactly one.
\* ------------------------------------------------------------------------
C4_JoinBeforeFormat ==
  /\ Len(geoSlots) = Len(allUniqueIps)
  /\ (\E i \in 1..Len(geoSlots) : geoSlots[i].state # "settled") => ~ReportBuilt
  /\ ReportBuilt =>
       /\ AllSettled(geoSlots)
       /\ Len(sink.content.blocks) = Len(allUniqueIps)
       /\ \A i \in 1..Len(allUniqueIps) : sink.content.blocks[i].ip = allUniqueIps[i]
       /\ \A a \in 1..Len(uniqueLeakedIPs) :
            Cardinality({i \in 1..Len(sink.content.blocks) :
                           sink.content.blocks[i].ip = uniqueLeakedIPs[a]}) = 1

\* a report over three lookups, one of which failed
C4_Witness ==
  /\ ReportBuilt
  /\ Len(allUniqueIps) = 3
  /\ Failed(2)
  /\ ~Failed(1)

\* ------------------------------------------------------------------------
\* C5: a lookup that settles, failed or not, leaves the slots of the other
\* lookups as they are; the record of each address is the one getGeoData gives
\* for that address and its own answer; and when the last lookup settles the
\* join completes and the report is sent, also when lookups failed.
\* ------------------------------------------------------------------------
C5_FailureIsolated ==
  [][ /\ \A i \in 1..Len(geoSlots) :
           geoSlots[i].state = "settled" =>
             /\ Len(geoSlots') = Len(geoSlots)
             /\ geoSlots'[i] = geoSlots[i]
      /\ \A i \in 1..Len(geoSlots') :
           geoSlots'[i].state = "settled" =>
             geoSlots'[i].value \in
               {WithIp(allUniqueIps'[i], getGeoData(allUniqueIps'[i], r)) : r \in GeoResponses}
      /\ (pc = "geo" /\ AllSettled(geoSlots')) =>
           /\ pc' = "send"
           /\ sink'.calls = 1
           /\ sink'.content.blocks =
                [i \in 1..Len(geoSlots') |-> Block(geoSlots'[i].value, primaryPublicIp')]
    ]_vars

\* a report in which one lookup failed and another gave its data
C5_Witness ==
  /\ ReportBuilt
  /\ \E i, j \in 1..Len(geoSlots) :
       /\ Failed(i)
       /\ ~Failed(j)
       /\ sink.content.blocks[j].country = "US"

\* ------------------------------------------------------------------------
\* C6: the record of a failed lookup has the "Unknown" sentinel in its fields,
\* and its block of the report shows the sentinel in every field.
\* ------------------------------------------------------------------------
C6_FailedLookupHasSentinels ==
  ReportBuilt =>
    \A i \in 1..Len(geoSlots) :
      Failed(i) =>
        /\ \A f \in {"country", "city", "postal_code", "time_zone", "latitude", "longitude"} :
             Get(geoSlots[i].value, f) = "Unknown"
        /\ sink.content.blocks[i].country = "Unknown"
        /\ sink.content.blocks[i].city = "Unknown"
        /\ sink.content.blocks[i].postal_code = "Unknown"
        /\ sink.content.blocks[i].time_zone = "Unknown"
        /\ sink.content.blocks[i].latitude = "Unknown"
        /\ sink.content.blocks[i].longitude = "Unknown"

\* ------------------------------------------------------------------------
\* C7 as stated: no address is in the address set before the handler has been
\* deregistered and the connection closed.
\* ------------------------------------------------------------------------
C7_ExtractionAfterTeardown ==
  uniqueLeakedIPs # << >> => TornDown

\* C7 as amended: classification (the labels of the report's blocks) happens only
\* after teardown; extraction and insertion into the address set happen in the
\* candidate handler, only while it is registered and the connection is open.
C7_ClassifyAfterExtractDuring ==
  [][ /\ uniqueLeakedIPs' # uniqueLeakedIPs =>
           (connection.listener /\ ~connection.closed /\ timer # "fired")
      /\ ReportBuilt' => (TornDown' /\ timer' = "fired")
    ]_vars

\* addresses were extracted in the window, and the report classifies one as private
C7_Witness ==
  /\ ReportBuilt
  /\ uniqueLeakedIPs # << >>
  /\ \E i \in 1..Len(sink.content.blocks) : sink.content.blocks[i].type = "Local (Private)"

\* ------------------------------------------------------------------------
\* C8: a run whose handler received no candidate event still reaches its end,
\* with one call of the sink and a report whose per-address section has no
\* block but that of the primary public address (that one block when the
\* primary address is known).
\* ------------------------------------------------------------------------
NoEventHandled == events.dispatched = events.ignored

C8_ZeroCandidates ==
  (timer = "fired" /\ NoEventHandled) ~>
     /\ pc = "done"
     /\ sink.calls = 1
     /\ ReportBuilt
     /\ \A i \in 1..Len(sink.content.blocks) :
          /\ sink.content.blocks[i].ip = primaryPublicIp
          /\ sink.content.blocks[i].type = "Public (Primary)"
     /\ Len(sink.content.blocks) = (IF PrimaryKnown THEN 1 ELSE 0)

\* the end of a run without candidate events: one block, the primary's
C8_Witness ==
  /\ pc = "done"
  /\ events.dispatched = 0
  /\ ReportBuilt
  /\ Len(sink.content.blocks) = 1
  /\ sink.content.blocks[1].ip = Ip8888

\* ------------------------------------------------------------------------
\* C9: without RTCPeerConnection the run sends the unsupported report, once,
\* and does nothing else: no connection, no handler, no timer, no lookup.
\* ------------------------------------------------------------------------
C9_UnsupportedHalts ==
  ~capability =>
    /\ ~connection.created
    /\ ~connection.listener
    /\ timer = "none"
    /\ pc \in {"start", "send", "done"}
    /\ primaryPublicIp = Unknown
    /\ allUniqueIps = << >>
    /\ geoSlots = << >>
    /\ probes = [audio |-> "idle", devices |-> "idle"]
    /\ sink.calls = (IF pc = "start" THEN 0 ELSE 1)
    /\ pc # "start" => sink.content = UnsupportedLog

\* the unsupported report was sent and the sink refused it
C9_Witness ==
  /\ ~capability
  /\ pc = "done"
  /\ sink.outcome = "http_error"

\* ------------------------------------------------------------------------
\* C10: the address set holds no literal twice, whatever events repeat it; the
\* consolidated set holds the primary address once also when a candidate
\* reported it; so there is one lookup and one block per address.
\* ------------------------------------------------------------------------
C10_NoDuplicateAddress ==
  /\ NoDuplicate(uniqueLeakedIPs)
  /\ NoDuplicate(localHostnames)
  /\ NoDuplicate(allUniqueIps)
  /\ Len(geoSlots) = Len(allUniqueIps)
  /\ ReportBuilt => (NoDuplicate(BlockIps) /\ Len(BlockIps) = Len(allUniqueIps))

\* two events carried 192.168.1.5 and the primary address is 192.168.1.5 too
C10_Witness ==
  /\ ReportBuilt
  /\ iceCandidateTypes[LabelHost] = 2
  /\ uniqueLeakedIPs = <<Ip192>>
  /\ primaryPublicIp = Ip192
  /\ allUniqueIps = <<Ip192>>

\* ------------------------------------------------------------------------
\* C11: every block of the report has exactly one of the three labels, by this
\* precedence: Public (Primary) when its address is the primary public address,
\* else Local (Private) when isPrivateIP says so, else Leaked; an address that
\* is the primary address and private is Public (Primary).
\* ------------------------------------------------------------------------
C11_LabelPrecedence ==
  ReportBuilt =>
    \A i \in 1..Len(sink.content.blocks) :
      LET b == sink.content.blocks[i]
      IN  /\ b.type \in {"Public (Primary)", "Local (Private)", "Leaked"}
          /\ b.type = "Public (Primary)" <=> b.ip = primaryPublicIp
          /\ b.type = "Local (Private)" <=> (b.ip # primaryPublicIp /\ IsPrivate[b.ip])
          /\ b.type = "Leaked" <=> (b.ip # primaryPublicIp /\ ~IsPrivate[b.ip])

\* the primary address is the private 192.168.1.5 and its block says primary,
\* beside a block that says leaked
C11_Witness ==
  /\ ReportBuilt
  /\ primaryPublicIp = Ip192
  /\ IsPrivate[Ip192]
  /\ \E i, j \in 1..Len(sink.content.blocks) :
       /\ sink.content.blocks[i].ip = Ip192
       /\ sink.content.blocks[i].type = "Public (Primary)"
       /\ sink.content.blocks[j].type = "Leaked"

\* ------------------------------------------------------------------------
\* C12: for an IPv6 literal in any of the forms the extraction pattern knows,
\* isPrivateIP returns true exactly when the first two characters of the
\* literal, lower-cased, are "fc" or "fd".
\* ------------------------------------------------------------------------
C12_Ipv6PrivateIffUla ==
  (call.state = "returned" /\ call.family = "v6") =>
    (call.result <=> \/ LowerStartsWith(call.arg, <<"f","c">>)
                     \/ LowerStartsWith(call.arg, <<"f","d">>))

\* ------------------------------------------------------------------------
\* C13: for a dotted quad a.b.c.d with octets in 0..255, isPrivateIP returns
\* true exactly when a = 10, or a = 172 and 16 <= b <= 31, or a = 192 and
\* b = 168.
\* ------------------------------------------------------------------------
C13_Ipv4PrivateRanges ==
  (call.state = "returned" /\ call.family = "v4") =>
    LET a == call.octets[1]
        b == call.octets[2]
    IN  call.result <=> \/ a = 10
                        \/ (a = 172 /\ b >= 16 /\ b <= 31)
                        \/ (a = 192 /\ b = 168)

\* 172.31.0.0 was classified, and it is private
C13_Witness ==
  /\ call.state = "returned"
  /\ call.octets = <<172, 31, 0, 0>>
  /\ call.arg = <<"1","7","2",".","3","1",".","0",".","0">>
  /\ call.result

\* ------------------------------------------------------------------------
\* C14: the label of an address does not depend on what its geo lookup gave:
\* had the lookup of any address of the report been answered in any other way
\* (another payload, the proxy flag set or not, a failure), with the same
\* primary address and the same addresses, its block would bear the same label.
\* ------------------------------------------------------------------------
C14_LabelIgnoresGeo ==
  ReportBuilt =>
    \A i \in 1..Len(sink.content.blocks) :
      \A r \in GeoResponses :
        Block(WithIp(allUniqueIps[i], getGeoData(allUniqueIps[i], r)),
              primaryPublicIp).type = sink.content.blocks[i].type

\* a report with the three labels, where the lookup of the private address gave
\* a record flagged as proxy and the lookup of the leaked one failed
C14_Witness ==
  /\ ReportBuilt
  /\ \E i, j, k \in 1..Len(sink.content.blocks) :
       /\ sink.content.blocks[i].type = "Public (Primary)"
       /\ sink.content.blocks[j].type = "Local (Private)"
       /\ sink.content.blocks[j].note
       /\ sink.content.blocks[k].type = "Leaked"
       /\ Failed(k)

\* ------------------------------------------------------------------------
\* C15: the lookups are issued in one step, one per member of the set that is
\* looked up (the known primary address and the addresses of the candidates,
\* each once) and none for another value; all of them are outstanding before
\* any has settled; and none is issued later.
\* ------------------------------------------------------------------------
Members(s) == {s[i] : i \in 1..Len(s)}
\* the callback is at one of the two awaits of the primary address
AwaitingPrimary == pc \in {"ipify", "ipifyJson"}

C15_OneLookupPerMember ==
  [][ /\ (AwaitingPrimary /\ ~AwaitingPrimary') =>
           /\ Len(geoSlots') = Len(allUniqueIps')
           /\ NoDuplicate(allUniqueIps')
           /\ Members(allUniqueIps') =
                (Members(uniqueLeakedIPs) \cup {primaryPublicIp'}) \ {Unknown, UndefinedIp}
           /\ \A i \in 1..Len(geoSlots') : geoSlots'[i] = Pending
      /\ ~(AwaitingPrimary /\ ~AwaitingPrimary') =>
           /\ allUniqueIps' = allUniqueIps
           /\ Len(geoSlots') = Len(geoSlots)
      /\ \A i \in 1..Len(geoSlots') :
           geoSlots'[i].state = "settled" => geoSlots'[i].value.ip = allUniqueIps'[i]
    ]_vars

\* three addresses, three lookups outstanding at the same time
C15_Witness ==
  /\ pc = "geo"
  /\ Len(allUniqueIps) = 3
  /\ Len(geoSlots) = 3
  /\ \A i \in 1..3 : geoSlots[i] = Pending

\* ------------------------------------------------------------------------
\* C16: with the primary public address 8.8.8.8, one handled event of type
\* srflx carrying 203.0.113.9 and one of type host carrying 192.168.1.5, the
\* report has three blocks: 8.8.8.8 Public (Primary), 203.0.113.9 Leaked,
\* 192.168.1.5 Local (Private); its tally counts host 1 and srflx 1 and nothing
\* else.
\* ------------------------------------------------------------------------
EventsHandled == events.dispatched - events.ignored

LabelOf(ip) ==
  {sink.content.blocks[i].type :
     i \in {j \in 1..Len(sink.content.blocks) : sink.content.blocks[j].ip = ip}}

C16_EndToEnd ==
  ( /\ ReportBuilt
    /\ primaryPublicIp = Ip8888
    /\ EventsHandled = 2
    /\ Members(uniqueLeakedIPs) = {Ip203, Ip192} ) =>
      /\ Len(sink.content.blocks) = 3
      /\ LabelOf(Ip8888) = {"Public (Primary)"}
      /\ LabelOf(Ip203) = {"Leaked"}
      /\ LabelOf(Ip192) = {"Local (Private)"}
      /\ sink.content.types[LabelHost] = 1
      /\ sink.content.types[LabelSrflx] = 1
      /\ \A t \in DOMAIN sink.content.types \ {LabelHost, LabelSrflx} :
           sink.content.types[t] = 0

\* the scenario, the srflx event first
C16_Witness ==
  /\ ReportBuilt
  /\ primaryPublicIp = Ip8888
  /\ EventsHandled = 2
  /\ BlockIps = <<Ip8888, Ip203, Ip192>>
  /\ sink.content.types[LabelSrflx] = 1

\* ------------------------------------------------------------------------
\* C17: a handled event whose candidate string contains fc00::abcd puts the
\* literal fc00::abcd, whole, into the address set, and no fragment of it.
\* ------------------------------------------------------------------------
\* 'fc00::abcd'
IpFc00Abcd == <<"f","c","0","0",":",":","a","b","c","d">>

CarryFc00Abcd == {i \in 1..Len(Candidates) : Includes(Candidates[i], IpFc00Abcd)}

C17_Ipv6ExtractedWhole ==
  [][ \A i \in CarryFc00Abcd :
        (connection.listener /\ IceCandidateEvent(i)) =>
          /\ IpFc00Abcd \in Members(uniqueLeakedIPs')
          /\ \A a \in Members(uniqueLeakedIPs') :
               ~(Len(a) < Len(IpFc00Abcd) /\ SubSeq(IpFc00Abcd, 1, Len(a)) = a)
    ]_vars

\* ------------------------------------------------------------------------
\* C18: when the primary-address lookup fails (the fetch rejects, the body does
\* not parse) or its payload has no address, the primary address is 'Unknown'
\* or undefined; no lookup is issued for it, no block says Public (Primary),
\* every address of the candidates is looked up and has its block, and the run
\* still delivers its report.
\* ------------------------------------------------------------------------
PrimaryLookupFailed == timer = "fired" /\ ~AwaitingPrimary /\ ~PrimaryKnown

C18_PrimaryUnknown ==
  /\ [][ PrimaryLookupFailed' =>
           /\ primaryPublicIp' \in {Unknown, UndefinedIp}
           /\ allUniqueIps' = uniqueLeakedIPs'
           /\ Len(geoSlots') = Len(uniqueLeakedIPs')
           /\ ReportBuilt' =>
                /\ BlockIps' = uniqueLeakedIPs'
                /\ \A i \in 1..Len(sink'.content.blocks) :
                     sink'.content.blocks[i].type # "Public (Primary)"
       ]_vars
  /\ <>PrimaryLookupFailed => <>(pc = "done" /\ sink.calls = 1 /\ ReportBuilt)

\* the payload had no address; the two addresses of the candidates are reported
C18_Witness ==
  /\ pc = "done"
  /\ primaryPublicIp = UndefinedIp
  /\ Len(uniqueLeakedIPs) = 2
  /\ BlockIps = uniqueLeakedIPs
  /\ ReportBuilt

\* ------------------------------------------------------------------------
\* C19: no count of the tally ever decreases; a handled event whose candidate
\* string has a type token adds one to the count of that label (from 0 for a
\* label the tally did not have) and leaves every other count as it is, also
\* when its address is already in the address set, which then stays as it is;
\* an event without a candidate string changes nothing.
\* ------------------------------------------------------------------------
CountOf(tally, t) == IF t \in DOMAIN tally THEN tally[t] ELSE 0

Handled(i) == connection.listener /\ IceCandidateEvent(i)

C19_TallyCountsEvents ==
  [][ /\ \A t \in DOMAIN iceCandidateTypes :
           /\ t \in DOMAIN iceCandidateTypes'
           /\ iceCandidateTypes'[t] >= iceCandidateTypes[t]
      /\ \A i \in 1..Len(Candidates) :
           Handled(i) =>
             /\ Parsed[i].typ # << >> =>
                  /\ DOMAIN iceCandidateTypes' = DOMAIN iceCandidateTypes \cup {Parsed[i].typ}
                  /\ \A t \in DOMAIN iceCandidateTypes' :
                       iceCandidateTypes'[t] =
                         CountOf(iceCandidateTypes, t) + (IF t = Parsed[i].typ THEN 1 ELSE 0)
             /\ Members(Parsed[i].ips) \subseteq Members(uniqueLeakedIPs) =>
                  uniqueLeakedIPs' = uniqueLeakedIPs
             /\ Candidates[i] = NoCandidate =>
                  UNCHANGED <<iceCandidateTypes, localHostnames, uniqueLeakedIPs>>
    ]_vars

\* two events carried 192.168.1.5: host is counted twice, the address is there
\* once; the window is still open
C19_Witness ==
  /\ timer = "armed"
  /\ events.dispatched = 2
  /\ iceCandidateTypes[LabelHost] = 2
  /\ uniqueLeakedIPs = <<Ip192>>

\* a label the tally did not start with was counted from 0
C19_WitnessNewLabel ==
  /\ timer = "armed"
  /\ DOMAIN iceCandidateTypes = {LabelHost, LabelSrflx, LabelRelay, <<"p","r","f","l","x">>}
  /\ iceCandidateTypes[<<"p","r","f","l","x">>] = 1

\* ------------------------------------------------------------------------
\* C20: the blocks of the report are in the same order whatever the order in
\* which the lookups settle: the block of the primary public address first, when
\* that address is known, then the addresses of the candidates in the order in
\* which they were first seen.
\* ------------------------------------------------------------------------
NotPrimary(a) == a # primaryPublicIp

C20_BlockOrder ==
  ReportBuilt =>
    BlockIps = (IF PrimaryKnown THEN <<primaryPublicIp>> ELSE << >>)
                 \o SelectSeq(uniqueLeakedIPs, NotPrimary)

\* three lookups, a later one settled before an earlier one, and the report is
\* in the order primary, first seen, second seen
C20_Witness ==
  /\ ReportBuilt
  /\ overtaken
  /\ uniqueLeakedIPs = <<Ip203, Ip192>>
  /\ BlockIps = <<Ip8888, Ip203, Ip192>>

\* ------------------------------------------------------------------------
\* C21: when the report is built every asynchronous probe the run started (the
\* audio rendering, the device enumeration) has settled, and the fingerprint
\* the report holds is the fingerprint as it stays: no probe writes to it after
\* the report is built; also when nothing is looked up.
\* ------------------------------------------------------------------------
C21_FingerprintComplete ==
  ReportBuilt =>
    /\ probes.audio # "pending"
    /\ probes.devices # "pending"
    /\ sink.content.fingerprint = fingerprint

\* ------------------------------------------------------------------------
\* C22: the timer is armed at most once, on the step on which the offer or the
\* description settles (resolved or rejected) and never before; the handler is
\* registered when the exchange starts and stays so until the timer fires, and
\* an event is handled exactly when the timer has not fired; the teardown and
\* the report come only after the exchange has settled and the timer fired.
\* ------------------------------------------------------------------------
ExchangeSettled ==
  connection.created /\ pc \notin {"start", "createOffer", "setLocalDescription"}

C22_TimerAfterExchange ==
  [][ /\ (timer' = "armed" /\ timer # "armed") =>
           /\ timer = "none"
           /\ pc \in {"createOffer", "setLocalDescription"}
           /\ pc' = "window"
      /\ timer # "none" => timer' # "none"
      /\ timer = "fired" => timer' = "fired"
      /\ timer' # "none" => ExchangeSettled'
      /\ (pc = "start" /\ pc' = "createOffer") => connection'.listener
      /\ pc' \in {"createOffer", "setLocalDescription", "window"} =>
           (connection'.listener /\ ~connection'.closed /\ timer' # "fired")
      /\ \A i \in 1..Len(Candidates) :
           IceCandidateEvent(i) =>
             (events'.ignored = events.ignored <=> timer # "fired")
      /\ (TornDown' \/ ReportBuilt') => (ExchangeSettled' /\ timer' = "fired")
    ]_vars

\* the description was rejected, the timer is armed, and the two events that
\* came while the exchange was under way were handled
C22_Witness ==
  /\ timer = "armed"
  /\ pc = "window"
  /\ negotiationError
  /\ EventsHandled = 2
  /\ Len(uniqueLeakedIPs) = 2

====
